---- MODULE Spec2Model ----
(***************************************************************************)
(* A model of epubfind (src/epubfind/epubfind.py): the phrase matcher      *)
(* (Patterns), the EPUB package reader (Epub.__init__), the chapter        *)
(* grouper (Epub.search), the file iterator (files) and the batch loop     *)
(* with its error list (main).                                             *)
(*                                                                         *)
(* Texts and phrases are sequences of one-character strings.  Paths are    *)
(* positions in the listing of the root path.  An archive handle is named  *)
(* by the path of the book it was opened for.                              *)
(***************************************************************************)
EXTENDS Integers, Sequences, FiniteSets, TLC

\* ---------------------------------------------------------------- bounds
MaxFiles == 2      \* directory entries under the root path
MaxItems == 2      \* <item> elements of an OPF manifest
MaxDocs == 2       \* <itemref> elements of an OPF spine
MaxNodes == 2      \* p/h1/h2/h3 elements of one content document
MaxPhrases == 2    \* phrases of one phrase list (matcher specification)
MaxTextLen == 3    \* characters of one text (matcher specification)

\* ------------------------------------------------------------ characters
WordChars == {"a", "A", "b", "f"}
SpaceChars == {" "}

IsWord(c) == c \in WordChars
IsSpace(c) == c \in SpaceChars

\* re.IGNORECASE: characters are compared after case folding.
Lower(c) == IF c = "A" THEN "a" ELSE c

\* ------------------------------------------------------ Patterns.__init__
RECURSIVE LStrip(_)
LStrip(s) == IF s # <<>> /\ IsSpace(Head(s)) THEN LStrip(Tail(s)) ELSE s

RECURSIVE RStrip(_)
RStrip(s) ==
  IF s # <<>> /\ IsSpace(s[Len(s)]) THEN RStrip(SubSeq(s, 1, Len(s) - 1)) ELSE s

\* phrase.strip()
Strip(s) == RStrip(LStrip(s))

\* sub(r'\s+', r'\\s+', s): every maximal run of whitespace becomes the one
\* token "\\s+"; every other character stays a literal token.
RECURSIVE SubSpaces(_)
SubSpaces(s) ==
  IF s = <<>> THEN <<>>
  ELSE IF IsSpace(Head(s)) THEN <<"\\s+">> \o SubSpaces(LStrip(s))
  ELSE <<Head(s)>> \o SubSpaces(Tail(s))

\* r'\b' + s + r'\b', compiled with IGNORECASE|DOTALL.
CompilePhrase(phrase) == <<"\\b">> \o SubSpaces(Strip(phrase)) \o <<"\\b">>

\* self.patterns: one compiled pattern per phrase, in the order given.
Patterns(phrases) == [i \in 1..Len(phrases) |-> CompilePhrase(phrases[i])]

\* ---------------------------------------------------------- Pattern.search
\* \b at offset i of text (between text[i] and text[i+1]).
AtBoundary(text, i) ==
  LET before == i >= 1 /\ IsWord(text[i])
      after == i < Len(text) /\ IsWord(text[i + 1])
  IN before # after

\* The offsets at which a run of one or more whitespace characters that
\* starts at offset i can end.
SpaceRunEnds(text, i) ==
  {j \in (i + 1)..Len(text) : \A k \in (i + 1)..j : IsSpace(text[k])}

\* The offsets at which a match of tokens k..Len(pattern), started at offset
\* i of text, can end (the regex engine backtracks over all of them).
RECURSIVE MatchEnds(_, _, _, _)
MatchEnds(pattern, k, text, i) ==
  IF k > Len(pattern) THEN {i}
  ELSE IF pattern[k] = "\\b"
       THEN IF AtBoundary(text, i) THEN MatchEnds(pattern, k + 1, text, i) ELSE {}
  ELSE IF pattern[k] = "\\s+"
       THEN UNION {MatchEnds(pattern, k + 1, text, j) : j \in SpaceRunEnds(text, i)}
  ELSE IF i < Len(text) /\ Lower(text[i + 1]) = Lower(pattern[k])
       THEN MatchEnds(pattern, k + 1, text, i + 1)
  ELSE {}

\* p.search(text): a match starting at some offset of text.
Search(pattern, text) ==
  \E i \in 0..Len(text) : MatchEnds(pattern, 1, text, i) # {}

\* ---------------------------------------------------------- Patterns.match
\* all(p.search(text) for p in self.patterns): the patterns are tried in
\* order and the first one that finds nothing ends the evaluation.
RECURSIVE AllFrom(_, _, _)
AllFrom(patterns, text, k) ==
  IF k > Len(patterns) THEN TRUE
  ELSE IF ~Search(patterns[k], text) THEN FALSE
  ELSE AllFrom(patterns, text, k + 1)

\* Mutant of Match: any(...) in place of all(...).
MatchAny(patterns, text) ==
  \E k \in 1..Len(patterns) : Search(patterns[k], text)

Match(patterns, text) == AllFrom(patterns, text, 1)


\* ------------------------------------------------------------ input sets
\* The phrase arguments of the batch run, and the texts of titles, headings
\* and paragraphs: under the phrase "A" the text "a" matches and "b" does not.
ArgPhrases == {<< <<"A">> >>}
Texts == {<<"a">>, <<"b">>}

\* element.tag of the elements selected by '//p|//h1|//h2|//h3'.
Tags == {"p", "h1"}

\* Manifest ids and the hrefs (archive entries) they can name.
Ids == {"i1", "i2"}
Hrefs == {"x.html", "y.html"}

\* All sequences over S of length at most n.
SeqsUpTo(S, n) == UNION {[1..k -> S] : k \in 0..n}

\* ----------------------------------------------------------------- state
VARIABLES
  root,         \* args.epub: what the root path is on disk
  phrase,       \* args.phrase
  pc,           \* position of main
  patterns,     \* Patterns(args.phrase)
  fileIdx,      \* how many paths the files() generator has yielded
  errors,       \* main's errors list: (path, exception) pairs
  log,          \* what has been printed, in order: shown results, error lines
  openHandles,  \* paths whose archive file object is open
  status,       \* outcome of every book processed so far, in order
  title,        \* Epub.title
  spine,        \* Epub.spine
  archive,      \* content documents of the current archive read so far
  docIdx,       \* how many spine entries search has opened
  document,     \* elements of the content document being scanned
  elemIdx,      \* how many of them have been consumed
  heading,      \* search: pending heading
  paragraphs,   \* search: matching paragraphs under the pending heading
  chapters,     \* search: chapter results emitted so far
  stream,       \* every element search has consumed for the current book
  result,       \* what search returned for the last book searched
  repIdx,       \* how many errors the final loop has printed
  mpc, mPhrases, mText, mPatterns, mResult   \* matcher specification

mainVars == <<root, phrase, pc, patterns, fileIdx, errors, log, openHandles, status>>
bookVars == <<title, spine, archive, docIdx, document, elemIdx, heading,
              paragraphs, chapters, stream, result>>
matchVars == <<mpc, mPhrases, mText, mPatterns, mResult>>
vars == <<mainVars, bookVars, repIdx, matchVars>>

\* ------------------------------------------------------------------ files
\* What the root path can be: a missing path, a file whose name does or
\* does not end in ".epub", or a directory whose walk lists some files,
\* each with or without that ending (epub is read for a file only: files
\* does not look at the name of a directory).
Roots ==
  {[kind |-> "missing", epub |-> FALSE, entries |-> <<>>]}
  \cup {[kind |-> "file", epub |-> e, entries |-> <<>>] : e \in BOOLEAN}
  \cup {[kind |-> "dir", epub |-> FALSE, entries |-> es] :
          es \in SeqsUpTo(BOOLEAN, MaxFiles)}

\* The positions i of entries with entries[i] true, in order.
RECURSIVE EpubEntries(_, _)
EpubEntries(entries, i) ==
  IF i > Len(entries) THEN <<>>
  ELSE IF entries[i] THEN <<i>> \o EpubEntries(entries, i + 1)
  ELSE EpubEntries(entries, i + 1)

\* Mutant of Files: the final else branch yields nothing instead of raising.
FilesNeverRaises(r) ==
  IF r.kind = "file" /\ r.epub THEN [raises |-> FALSE, paths |-> <<1>>]
  ELSE IF r.kind = "dir" THEN [raises |-> FALSE, paths |-> EpubEntries(r.entries, 1)]
  ELSE [raises |-> FALSE, paths |-> <<>>]

\* files(path, extensions=['.epub']): the paths it yields, or that it raises
\* FileNotFoundError.  A path is the position of the file in the walk (1 for
\* a root that is itself a file).
Files(r) ==
  IF r.kind = "file" /\ r.epub THEN [raises |-> FALSE, paths |-> <<1>>]
  ELSE IF r.kind = "dir" THEN [raises |-> FALSE, paths |-> EpubEntries(r.entries, 1)]
  ELSE [raises |-> TRUE, paths |-> <<>>]

\* The path main's loop is working on.
CurrentPath == Files(root).paths[fileIdx]

\* ---------------------------------------------------------- Epub.__init__
\* self.filename, as a text (the fallback title).
FileNameText == <<"f">>

\* What one archive file holds, as far as Epub.__init__ reads it.
BookInputs ==
  [zipOk : BOOLEAN,                      \* ZipFile.__init__ succeeds
   metaOk : BOOLEAN,                     \* container.xml and the OPF parse
   dcTitle : SeqsUpTo(Texts, 1),         \* the //dc:title elements
   items : SeqsUpTo([id : Ids, href : Hrefs], MaxItems),  \* //opf:item
   itemrefs : SeqsUpTo(Ids, MaxDocs)]    \* //opf:spine/opf:itemref idrefs

\* hrefs[node.attrib['id']] = node.attrib['href'], over the items in order.
RECURSIVE HrefsOf(_, _)
HrefsOf(items, n) ==
  IF n = 0 THEN [i \in {} |-> "x.html"]
  ELSE LET d == HrefsOf(items, n - 1)
       IN [i \in DOMAIN d \cup {items[n].id} |->
             IF i = items[n].id THEN items[n].href ELSE d[i]]

\* self.spine.append(hrefs[idref]) over the itemrefs in order; KeyError on
\* an idref the manifest does not define.
RECURSIVE BuildSpine(_, _, _)
BuildSpine(hrefs, itemrefs, k) ==
  IF k > Len(itemrefs) THEN [ok |-> TRUE, spine |-> <<>>]
  ELSE IF itemrefs[k] \notin DOMAIN hrefs THEN [ok |-> FALSE, spine |-> <<>>]
  ELSE LET rest == BuildSpine(hrefs, itemrefs, k + 1)
       IN [ok |-> rest.ok,
           spine |-> IF rest.ok THEN <<hrefs[itemrefs[k]]>> \o rest.spine ELSE <<>>]

\* elements[0].text.strip() if elements else self.filename
TitleOf(dcTitle) == IF dcTitle # <<>> THEN Strip(dcTitle[1]) ELSE FileNameText

\* Epub(path): ok, or the exception raised; opened says whether the ZIP
\* file object was opened (and is still open) when __init__ returned or raised.
EpubInit(in) ==
  IF ~in.zipOk THEN
    [ok |-> FALSE, opened |-> FALSE, exc |-> "BadZipFile", title |-> <<>>, spine |-> <<>>]
  ELSE IF ~in.metaOk THEN
    [ok |-> FALSE, opened |-> TRUE, exc |-> "MetadataError", title |-> <<>>, spine |-> <<>>]
  ELSE LET s == BuildSpine(HrefsOf(in.items, Len(in.items)), in.itemrefs, 1)
       IN IF ~s.ok THEN
            [ok |-> FALSE, opened |-> TRUE, exc |-> "KeyError", title |-> <<>>, spine |-> <<>>]
          ELSE
            [ok |-> TRUE, opened |-> TRUE, exc |-> "", title |-> TitleOf(in.dcTitle),
             spine |-> s.spine]

\* ----------------------------------------------------------- Epub.search
\* What read_html gives for one archive entry: it raises, or a document
\* whose '//p|//h1|//h2|//h3' elements are these, in document order.
Nodes == [tag : Tags, text : Texts]
DocContents ==
  {[ok |-> FALSE, nodes |-> <<>>]}
  \cup {[ok |-> TRUE, nodes |-> ns] : ns \in SeqsUpTo(Nodes, MaxNodes)}

ChapterResult(h, ps) == [heading |-> h, paragraphs |-> ps]

\* Mutant of ShouldFlush: every heading closes a group.
ShouldFlushAlways(ps, pats, h) == TRUE

\* if paragraphs or patterns.match(heading)
ShouldFlush(ps, pats, h) == ps # <<>> \/ Match(pats, h)

\* The body of the element loop, on the grouper state g.
SearchElement(g, pats, element) ==
  IF element.tag # "p" THEN
    IF ShouldFlush(g.paragraphs, pats, g.heading)
    THEN [chapters |-> Append(g.chapters, ChapterResult(g.heading, g.paragraphs)),
          paragraphs |-> <<>>, heading |-> element.text]
    ELSE [g EXCEPT !.heading = element.text]
  ELSE IF Match(pats, element.text)
       THEN [g EXCEPT !.paragraphs = Append(g.paragraphs, element)]
  ELSE g

\* Mutant of SearchFinish: the trailing group is dropped.
SearchFinishNoFlush(g) == g.chapters

\* if paragraphs: chapters.append(ChapterResult(heading, paragraphs))
SearchFinish(g) ==
  IF g.paragraphs # <<>>
  THEN Append(g.chapters, ChapterResult(g.heading, g.paragraphs))
  ELSE g.chapters

\* return Result(self, chapters) if chapters else None
None == [isNone |-> TRUE, chapters |-> <<>>]
Result(cs) == [isNone |-> FALSE, chapters |-> cs]

\* Mutant of SearchReturn: a Result also for an empty chapter list.
SearchReturnAlways(cs) == Result(cs)

SearchReturn(cs) == IF cs # <<>> THEN Result(cs) ELSE None

Grouper == [chapters |-> chapters, paragraphs |-> paragraphs, heading |-> heading]


\* -------------------------------------------------------------------- Init
NoBook ==
  /\ title = <<>>
  /\ spine = <<>>
  /\ archive = [h \in {} |-> [ok |-> FALSE, nodes |-> <<>>]]
  /\ docIdx = 0
  /\ document = <<>>
  /\ elemIdx = 0
  /\ heading = <<>>
  /\ paragraphs = <<>>
  /\ chapters = <<>>
  /\ stream = <<>>
  /\ result = None

MatchOff ==
  /\ mpc = "off"
  /\ mPhrases = <<>>
  /\ mText = <<>>
  /\ mPatterns = <<>>
  /\ mResult = FALSE

Init ==
  /\ root \in Roots
  /\ phrase \in ArgPhrases
  /\ pc = "start"
  /\ patterns = <<>>
  /\ fileIdx = 0
  /\ errors = <<>>
  /\ log = <<>>
  /\ openHandles = {}
  /\ status = <<>>
  /\ repIdx = 0
  /\ NoBook
  /\ MatchOff

\* ------------------------------------------------------------------- main
\* No Epub object and no search in progress.
ClearBook ==
  /\ title' = <<>>
  /\ spine' = <<>>
  /\ archive' = [h \in {} |-> [ok |-> FALSE, nodes |-> <<>>]]
  /\ docIdx' = 0
  /\ document' = <<>>
  /\ elemIdx' = 0
  /\ heading' = <<>>
  /\ paragraphs' = <<>>
  /\ chapters' = <<>>
  /\ stream' = <<>>
  /\ result' = None

\* patterns = Patterns(args.phrase); errors = []; the files() generator is
\* created and has not run yet.
Start ==
  /\ pc = "start"
  /\ patterns' = Patterns(phrase)
  /\ pc' = "loop"
  /\ UNCHANGED <<root, phrase, fileIdx, errors, log, openHandles, status>>
  /\ UNCHANGED <<bookVars, repIdx, matchVars>>

\* for epub_path in files(...): the generator raises FileNotFoundError; main
\* does not catch it, the interpreter prints the traceback and exits with 1.
FilesNotFound ==
  /\ pc = "loop"
  /\ Files(root).raises
  /\ pc' = "notfound"
  /\ UNCHANGED <<root, phrase, patterns, fileIdx, errors, log, openHandles, status>>
  /\ UNCHANGED <<bookVars, repIdx, matchVars>>

\* for epub_path in files(...): the generator yields the next path; the
\* Epub object and the search of the previous iteration are gone.
NextFile ==
  /\ pc = "loop"
  /\ ~Files(root).raises
  /\ fileIdx < Len(Files(root).paths)
  /\ fileIdx' = fileIdx + 1
  /\ pc' = "open"
  /\ ClearBook
  /\ UNCHANGED <<root, phrase, patterns, errors, log, openHandles, status>>
  /\ UNCHANGED <<repIdx, matchVars>>

\* for epub_path in files(...): the generator is exhausted; the loop over
\* the books is over.
FilesExhausted ==
  /\ pc = "loop"
  /\ ~Files(root).raises
  /\ fileIdx = Len(Files(root).paths)
  /\ pc' = "report"
  /\ repIdx' = 0
  /\ ClearBook
  /\ UNCHANGED <<root, phrase, patterns, fileIdx, errors, log, openHandles, status>>
  /\ UNCHANGED matchVars

\* Mutant of ExceptHandler: the error ends the loop over the books.
ExceptHandlerBreaks(path, exc) ==
  /\ errors' = Append(errors, [path |-> path, exc |-> exc])
  /\ log' = log
  /\ pc' = "report"

\* Mutant of ExceptHandler: the error line is printed at once.
ExceptHandlerPrints(path, exc) ==
  /\ errors' = Append(errors, [path |-> path, exc |-> exc])
  /\ log' = Append(log, [ev |-> "error", path |-> path])
  /\ pc' = "loop"

\* except Exception as e: errors.append((epub_path, e)); the loop goes on.
ExceptHandler(path, exc) ==
  /\ errors' = Append(errors, [path |-> path, exc |-> exc])
  /\ log' = log
  /\ pc' = "loop"

\* with Epub(epub_path) as epub: Epub.__init__ raises.  The with block is
\* never entered, so nothing closes a ZIP file object that was opened; the
\* exception kept in errors holds the frame of __init__, and with it the
\* Epub object, alive until main returns.
OpenEpubFail ==
  /\ pc = "open"
  /\ \E in \in BookInputs :
       LET r == EpubInit(in) IN
         /\ ~r.ok
         /\ openHandles' = IF r.opened THEN openHandles \cup {CurrentPath}
                           ELSE openHandles
         /\ ExceptHandler(CurrentPath, r.exc)
  /\ status' = Append(status, "openfail")
  /\ UNCHANGED <<root, phrase, patterns, fileIdx, bookVars, repIdx, matchVars>>

\* with Epub(epub_path) as epub: result = epub.search(patterns), up to the
\* spine loop: chapters = [], paragraphs = [], heading = self.title.
OpenEpubOk ==
  /\ pc = "open"
  /\ \E in \in BookInputs :
       LET r == EpubInit(in) IN
         /\ r.ok
         /\ title' = r.title
         /\ spine' = r.spine
         /\ heading' = r.title
  /\ openHandles' = openHandles \cup {CurrentPath}
  /\ archive' = [h \in {} |-> [ok |-> FALSE, nodes |-> <<>>]]
  /\ docIdx' = 0
  /\ document' = <<>>
  /\ elemIdx' = 0
  /\ paragraphs' = <<>>
  /\ chapters' = <<>>
  /\ stream' = <<>>
  /\ result' = None
  /\ pc' = "spine"
  /\ UNCHANGED <<root, phrase, patterns, fileIdx, errors, log, status, repIdx, matchVars>>

\* The content of archive entry url: what was read before, or any content
\* when the entry is read for the first time.
ContentsOf(url) ==
  IF url \in DOMAIN archive THEN {archive[url]} ELSE DocContents

Remember(url, c) ==
  [h \in DOMAIN archive \cup {url} |-> IF h = url THEN c ELSE archive[h]]

\* for url in self.spine: document = self.read_html(url, ...) succeeds.
ReadHtmlOk ==
  /\ pc = "spine"
  /\ docIdx < Len(spine)
  /\ \E c \in ContentsOf(spine[docIdx + 1]) :
       /\ c.ok
       /\ archive' = Remember(spine[docIdx + 1], c)
       /\ document' = c.nodes
  /\ docIdx' = docIdx + 1
  /\ elemIdx' = 0
  /\ pc' = "scan"
  /\ UNCHANGED <<root, phrase, patterns, fileIdx, errors, log, openHandles, status>>
  /\ UNCHANGED <<title, spine, heading, paragraphs, chapters, stream, result>>
  /\ UNCHANGED <<repIdx, matchVars>>

\* for url in self.spine: self.read_html(url, ...) raises (the entry is
\* missing from the archive, or lxml cannot parse it).  search has no
\* handler: the exception leaves search and the with block, which closes
\* the archive, and reaches main's except clause.
ReadHtmlFail ==
  /\ pc = "spine"
  /\ docIdx < Len(spine)
  /\ \E c \in ContentsOf(spine[docIdx + 1]) :
       /\ ~c.ok
       /\ archive' = Remember(spine[docIdx + 1], c)
  /\ openHandles' = openHandles \ {CurrentPath}
  /\ ExceptHandler(CurrentPath, "ParseError")
  /\ status' = Append(status, "docfail")
  /\ result' = None
  /\ UNCHANGED <<root, phrase, patterns, fileIdx>>
  /\ UNCHANGED <<title, spine, docIdx, document, elemIdx, heading, paragraphs,
                 chapters, stream>>
  /\ UNCHANGED <<repIdx, matchVars>>

\* for element in document.xpath('//p|//h1|//h2|//h3'): one element.
Element ==
  /\ pc = "scan"
  /\ elemIdx < Len(document)
  /\ LET node == document[elemIdx + 1]
         element == [tag |-> node.tag, text |-> node.text,
                     doc |-> docIdx, idx |-> elemIdx + 1]
         g == SearchElement(Grouper, patterns, element)
     IN /\ chapters' = g.chapters
        /\ paragraphs' = g.paragraphs
        /\ heading' = g.heading
        /\ stream' = Append(stream, element)
  /\ elemIdx' = elemIdx + 1
  /\ UNCHANGED mainVars
  /\ UNCHANGED <<title, spine, archive, docIdx, document, result>>
  /\ UNCHANGED <<repIdx, matchVars>>

\* Mutant of EndDocument: the pending group is closed with its document.
EndDocumentFlushes ==
  /\ pc = "scan"
  /\ elemIdx = Len(document)
  /\ pc' = "spine"
  /\ chapters' = SearchFinish(Grouper)
  /\ paragraphs' = <<>>
  /\ UNCHANGED <<root, phrase, patterns, fileIdx, errors, log, openHandles, status>>
  /\ UNCHANGED <<title, spine, archive, docIdx, document, elemIdx, heading,
                 stream, result>>
  /\ UNCHANGED <<repIdx, matchVars>>

\* The element loop of one document ends; the spine loop goes on.
EndDocument ==
  /\ pc = "scan"
  /\ elemIdx = Len(document)
  /\ pc' = "spine"
  /\ UNCHANGED <<root, phrase, patterns, fileIdx, errors, log, openHandles, status>>
  /\ UNCHANGED <<bookVars, repIdx, matchVars>>

\* result.show(...): the book's banner and chapters are printed.
Show(r, path) ==
  IF ~r.isNone THEN Append(log, [ev |-> "show", path |-> path]) ELSE log

\* The spine loop ends: the trailing group, the return value, main's
\* "if result: result.show(...)", and the end of the with block.
FinishSearch ==
  /\ pc = "spine"
  /\ docIdx = Len(spine)
  /\ chapters' = SearchFinish(Grouper)
  /\ result' = SearchReturn(chapters')
  /\ log' = Show(result', CurrentPath)
  /\ openHandles' = openHandles \ {CurrentPath}
  /\ status' = Append(status, IF result'.isNone THEN "none" ELSE "result")
  /\ pc' = "loop"
  /\ UNCHANGED <<root, phrase, patterns, fileIdx, errors>>
  /\ UNCHANGED <<title, spine, archive, docIdx, document, elemIdx, heading,
                 paragraphs, stream>>
  /\ UNCHANGED <<repIdx, matchVars>>

\* for path, exception in errors: print(f'*** Error in ...'), one line.
ReportError ==
  /\ pc = "report"
  /\ repIdx < Len(errors)
  /\ log' = Append(log, [ev |-> "error", path |-> errors[repIdx + 1].path])
  /\ repIdx' = repIdx + 1
  /\ UNCHANGED <<root, phrase, pc, patterns, fileIdx, errors, openHandles, status>>
  /\ UNCHANGED <<bookVars, matchVars>>

\* main returns.
Done ==
  /\ pc = "report"
  /\ repIdx = Len(errors)
  /\ pc' = "done"
  /\ UNCHANGED <<root, phrase, patterns, fileIdx, errors, log, openHandles, status>>
  /\ UNCHANGED <<bookVars, repIdx, matchVars>>

Next ==
  \/ Start
  \/ FilesNotFound
  \/ NextFile
  \/ FilesExhausted
  \/ OpenEpubFail
  \/ OpenEpubOk
  \/ ReadHtmlOk
  \/ ReadHtmlFail
  \/ Element
  \/ EndDocument
  \/ FinishSearch
  \/ ReportError
  \/ Done

Spec == Init /\ [][Next]_vars

\* ------------------------------------------------ matcher specification
\* Patterns(phrases).match(text) on its own: the phrase list and the text
\* are drawn from bounded sets, then compiled and matched.
Alphabet == {"a", "A", "b", " "}

PhrasePool ==
  {<<"a">>, <<"b">>, <<"a", "b">>, <<"A", " ", "b">>,
   <<" ", "b", " ", " ", "a", " ">>, <<" ">>}

PhraseLists == UNION {[1..k -> PhrasePool] : k \in 1..MaxPhrases}

InitMatch ==
  /\ root = [kind |-> "missing", epub |-> FALSE, entries |-> <<>>]
  /\ phrase = <<>>
  /\ pc = "off"
  /\ patterns = <<>>
  /\ fileIdx = 0
  /\ errors = <<>>
  /\ log = <<>>
  /\ openHandles = {}
  /\ status = <<>>
  /\ repIdx = 0
  /\ NoBook
  /\ mpc = "new"
  /\ mPhrases \in PhraseLists
  /\ mText \in SeqsUpTo(Alphabet, MaxTextLen)
  /\ mPatterns = <<>>
  /\ mResult = FALSE

\* patterns = Patterns(phrases)
CompilePatterns ==
  /\ mpc = "new"
  /\ mPatterns' = Patterns(mPhrases)
  /\ mpc' = "compiled"
  /\ UNCHANGED <<mPhrases, mText, mResult>>
  /\ UNCHANGED <<mainVars, bookVars, repIdx>>

\* patterns.match(text)
MatchText ==
  /\ mpc = "compiled"
  /\ mResult' = Match(mPatterns, mText)
  /\ mpc' = "matched"
  /\ UNCHANGED <<mPhrases, mText, mPatterns>>
  /\ UNCHANGED <<mainVars, bookVars, repIdx>>

NextMatch ==
  \/ CompilePatterns
  \/ MatchText

SpecMatch == InitMatch /\ [][NextMatch]_vars


\* ================================================================ claims
\* ------------------------------------------------------- shared notions
Last(sq) == sq[Len(sq)]

\* A search is under way, or the last book was searched to the end.
Searching == pc \in {"spine", "scan"}
Searched == pc = "loop" /\ status # <<>> /\ Last(status) \in {"none", "result"}

IsHeading(e) == e.tag # "p"
IsMatchingParagraph(e) == e.tag = "p" /\ Match(patterns, e.text)

\* The elements of a sequence, as a set.
Range(sq) == {sq[i] : i \in 1..Len(sq)}

\* The members of a finite set of integers, in increasing order.
RECURSIVE Ascending(_)
Ascending(S) ==
  IF S = {} THEN <<>>
  ELSE LET m == CHOOSE x \in S : \A y \in S : x <= y
       IN <<m>> \o Ascending(S \ {m})

\* The stream st cut at its headings: a segment is named by the position of
\* the heading that opens it, 0 for the segment before the first heading.
SegmentStarts(st) == {0} \cup {i \in 1..Len(st) : IsHeading(st[i])}
SegmentEnd(st, s) ==
  LET later == {h \in SegmentStarts(st) : h > s}
  IN IF later = {} THEN Len(st)
     ELSE (CHOOSE h \in later : \A y \in later : h <= y) - 1
SegmentHeading(t, st, s) == IF s = 0 THEN t ELSE st[s].text
SegmentMatches(st, s) ==
  Ascending({i \in (s + 1)..SegmentEnd(st, s) : IsMatchingParagraph(st[i])})

\* One group per segment of st that holds a matching paragraph, in stream
\* order, each with exactly its matching paragraphs in stream order.
ExpectedGroups(t, st) ==
  LET live == Ascending({s \in SegmentStarts(st) : SegmentMatches(st, s) # <<>>})
  IN [n \in 1..Len(live) |->
        [heading |-> SegmentHeading(t, st, live[n]),
         paragraphs |-> [m \in 1..Len(SegmentMatches(st, live[n])) |->
                           st[SegmentMatches(st, live[n])[m]]]]]

\* The groups of cs that have a paragraph, in order.
NonEmptyGroups(cs) == SelectSeq(cs, LAMBDA c : c.paragraphs # <<>>)

\* The groups emitted so far, with the pending one if it has paragraphs.
GroupsSoFar ==
  IF paragraphs # <<>> /\ Searching
  THEN Append(chapters, [heading |-> heading, paragraphs |-> paragraphs])
  ELSE chapters

\* ------------------------------------------------------------------- C1
\* C1 as stated: every emitted chapter group has at least one paragraph, or
\* is the very first group emitted, is headed by the book title, and the
\* book title matches the phrase set.
C1_Original ==
  (Searching \/ Searched) =>
    \A k \in 1..Len(chapters) :
      \/ chapters[k].paragraphs # <<>>
      \/ k = 1 /\ chapters[k].heading = title /\ Match(patterns, title)

\* C1 amended: every emitted chapter group has at least one paragraph, or
\* its heading matches the phrase set and is the book title or the text of
\* an in-document heading that another heading follows; the pending heading
\* is tested at every heading, not only at the first.
C1_Amended ==
  (Searching \/ Searched) =>
    \A k \in 1..Len(chapters) :
      \/ chapters[k].paragraphs # <<>>
      \/ /\ Match(patterns, chapters[k].heading)
         /\ \E j \in 1..Len(stream) :
              /\ IsHeading(stream[j])
              /\ \/ chapters[k].heading = title
                 \/ \E i \in 1..(j - 1) :
                      IsHeading(stream[i]) /\ stream[i].text = chapters[k].heading

\* A group without paragraphs that is not the first one and is headed by an
\* in-document heading has been emitted.
C1_Witness ==
  /\ Searching
  /\ \E k \in 2..Len(chapters) :
       /\ chapters[k].paragraphs = <<>>
       /\ chapters[k].heading # title

\* ------------------------------------------------------------------- C2
\* C2: the emitted groups that have paragraphs are exactly, in stream order,
\* one group per heading (the book title for what precedes the first
\* heading) with a matching paragraph before the next heading or the end of
\* the stream, each with exactly those paragraphs in stream order; this
\* holds of every prefix of the stream and of the returned result, whose
\* last group is the one pending at the end of the stream.
C2_Grouping ==
  /\ Searching => NonEmptyGroups(GroupsSoFar) = ExpectedGroups(title, stream)
  /\ Searched =>
       /\ NonEmptyGroups(result.chapters) = ExpectedGroups(title, stream)
       /\ \A i \in 1..Len(stream) :
            Cardinality({k \in 1..Len(result.chapters) :
                           stream[i] \in Range(result.chapters[k].paragraphs)})
              = IF IsMatchingParagraph(stream[i]) THEN 1 ELSE 0

\* A finished search whose stream holds a matching paragraph before the
\* first heading, a non-matching paragraph, a heading whose own text
\* matches, and a matching paragraph under the last heading.
C2_Witness ==
  /\ Searched
  /\ Len(NonEmptyGroups(result.chapters)) = 2
  /\ result.chapters[1].heading = title
  /\ \E i \in 1..Len(stream) : stream[i].tag = "p" /\ ~Match(patterns, stream[i].text)
  /\ \E i \in 1..Len(stream) : IsHeading(stream[i]) /\ Match(patterns, stream[i].text)
  /\ IsMatchingParagraph(Last(stream))

\* ------------------------------------------------------------------- C8
\* C8: search returns a result exactly when a chapter group was emitted: no
\* groups gives None, which is shown nowhere; a result never has an empty
\* chapter list, and it is shown.
C8_ResultIffChapters ==
  /\ result.isNone \/ result.chapters # <<>>
  /\ Searched =>
       /\ result.isNone <=> chapters = <<>>
       /\ ~result.isNone => result.chapters = chapters
       /\ ~result.isNone <=>
            \E n \in 1..Len(log) : log[n] = [ev |-> "show", path |-> CurrentPath]

\* A book whose documents held elements was searched to the end, emitted no
\* group and returned None.
C8_Witness ==
  /\ Searched
  /\ stream # <<>>
  /\ chapters = <<>>
  /\ result.isNone

\* ------------------------------------------------------------------ C10
\* The elements of the first n spine documents, in spine order.
RECURSIVE SpineNodes(_)
SpineNodes(n) ==
  IF n = 0 THEN <<>> ELSE SpineNodes(n - 1) \o archive[spine[n]].nodes

\* The tag and text of the elements of a stream.
Untagged(st) == [i \in 1..Len(st) |-> [tag |-> st[i].tag, text |-> st[i].text]]

\* The heading in force at position n of the stream.
HeadingAt(n) ==
  LET hs == {i \in 1..(n - 1) : IsHeading(stream[i])}
  IN IF hs = {} THEN title
     ELSE stream[CHOOSE h \in hs : \A y \in hs : y <= h].text

\* C10: the stream search consumes is the concatenation of the spine
\* documents' elements in spine order, a repeated path being read again;
\* the pending heading of an accumulated paragraph is the last heading
\* before it in the whole stream, whatever document that was in, or the
\* title; and groups are only closed by headings, never by the end of a
\* document.
C10_AcrossDocuments ==
  /\ pc \in {"spine", "loop"} => Untagged(stream) = SpineNodes(docIdx)
  /\ pc = "scan" =>
       Untagged(stream) = SpineNodes(docIdx - 1) \o SubSeq(document, 1, elemIdx)
  /\ Searching =>
       /\ \A i \in 1..Len(stream) :
            stream[i] \in Range(paragraphs) => HeadingAt(i) = heading
       /\ Len(chapters) <= Cardinality({i \in 1..Len(stream) : IsHeading(stream[i])})

\* The same path is being scanned for the second time; its first element, a
\* matching paragraph, is accumulated under the heading that ended the
\* first scan, and no group was closed between the two scans.
C10_Witness ==
  /\ pc = "scan"
  /\ docIdx = 2
  /\ spine[1] = spine[2]
  /\ heading # title
  /\ \E e \in Range(paragraphs) : e.doc = 2 /\ e.idx = 1
  /\ \E i \in 1..Len(stream) :
       IsHeading(stream[i]) /\ stream[i].doc = 1 /\ stream[i].text = heading


\* ------------------------------------------------------------------- C3
\* C3 as stated: a spine document that fails to be read or parsed
\* contributes no elements and the search goes on, so that the book's
\* result holds every matching paragraph of the documents that did parse.
C3_DocumentFailureRecovered ==
  (pc = "loop" /\ status # <<>> /\ Last(status) = "docfail") =>
    \A i \in 1..Len(stream) :
      IsMatchingParagraph(stream[i]) =>
        /\ ~result.isNone
        /\ \E k \in 1..Len(result.chapters) :
             stream[i] \in Range(result.chapters[k].paragraphs)

\* ------------------------------------------------------------------- C4
\* C4 as stated: at no point is an archive handle open other than that of
\* the book being searched; the handle of a book is released on every way
\* out of its iteration.
C4_HandlesReleased ==
  openHandles \subseteq (IF Searching THEN {CurrentPath} ELSE {})

\* ------------------------------------------------------------------- C5
\* The paths files() yields, whether or not the run got to them.
YieldedPaths == Files(root).paths

ErrorsFor(path) == {n \in 1..Len(errors) : errors[n].path = path}
ShowsFor(path) == {n \in 1..Len(log) : log[n] = [ev |-> "show", path |-> path]}

\* C5: every book that fails to open adds exactly one (path, error) pair and
\* shows no result; no other book adds a pair for it; the loop reaches
\* every path of the batch whatever failed before it; and a book that is
\* searched gets the result its own title and elements determine.
C5_BatchIsolation ==
  /\ \A k \in 1..Len(status) :
       /\ status[k] = "openfail" =>
            /\ Cardinality(ErrorsFor(YieldedPaths[k])) = 1
            /\ ShowsFor(YieldedPaths[k]) = {}
       /\ status[k] \in {"none", "result"} =>
            /\ ErrorsFor(YieldedPaths[k]) = {}
            /\ Cardinality(ShowsFor(YieldedPaths[k]))
                 = IF status[k] = "result" THEN 1 ELSE 0
  /\ pc \in {"report", "done"} => Len(status) = Len(YieldedPaths)
  /\ pc = "spine" /\ docIdx = 0 =>
       chapters = <<>> /\ paragraphs = <<>> /\ heading = title /\ stream = <<>>
  /\ Searched =>
       /\ NonEmptyGroups(result.chapters) = ExpectedGroups(title, stream)
       /\ result.isNone <=> status[fileIdx] = "none"

\* The first book of a batch failed to open and the second one was searched
\* and its result shown.
C5_Witness ==
  /\ Searched
  /\ status = <<"openfail", "result">>
  /\ Len(errors) = 1
  /\ ShowsFor(YieldedPaths[2]) # {}

\* ------------------------------------------------------------------- C6
\* The root path matches no file to search.
NoFileToSearch ==
  \/ root.kind = "missing"
  \/ root.kind = "file" /\ ~root.epub
  \/ root.kind = "dir" /\ \A i \in 1..Len(root.entries) : ~root.entries[i]

Ended == pc \in {"done", "notfound"}

\* C6 as stated: a root path that matches no file to search (missing, a
\* file without the .epub extension, or a directory tree with no .epub
\* file) ends the run in the not-found failure.
C6_Original == (Ended /\ NoFileToSearch) => pc = "notfound"

\* C6 amended: a root path that does not exist or is a file without the
\* .epub extension ends the run in the not-found failure, before any book
\* is opened and with nothing printed, and no other run ends that way; a
\* directory tree without .epub files ends normally with empty output.
C6_Amended ==
  /\ (root.kind = "missing" \/ (root.kind = "file" /\ ~root.epub)) =>
       /\ pc \in {"start", "loop", "notfound"}
       /\ log = <<>> /\ status = <<>> /\ errors = <<>> /\ fileIdx = 0
  /\ pc = "notfound" =>
       /\ root.kind = "missing" \/ (root.kind = "file" /\ ~root.epub)
       /\ status = <<>>
  /\ (root.kind = "dir" /\ NoFileToSearch) =>
       /\ pc # "notfound"
       /\ log = <<>> /\ status = <<>> /\ errors = <<>>

\* The run over a file that is not an .epub has ended in the not-found
\* failure.
C6_Witness == pc = "notfound" /\ root.kind = "file" /\ ~root.epub

\* ------------------------------------------------------------------- C7
\* C7: no error line is printed before a shown result; error lines are
\* printed only once every path of the input has been processed, in the
\* order the errors were recorded; until then errors are only recorded; and
\* every book whose search returned a result has it shown.
C7_ErrorsReportedLast ==
  /\ \A i \in 1..Len(log) : \A j \in (i + 1)..Len(log) :
       ~(log[i].ev = "error" /\ log[j].ev = "show")
  /\ (\E i \in 1..Len(log) : log[i].ev = "error") =>
       /\ pc \in {"report", "done"}
       /\ Len(status) = Len(YieldedPaths)
  /\ Cardinality({n \in 1..Len(log) : log[n].ev = "error"})
       = (IF pc \in {"report", "done"} THEN repIdx ELSE 0)
  /\ pc = "done" =>
       SelectSeq(log, LAMBDA l : l.ev = "error")
         = [n \in 1..Len(errors) |-> [ev |-> "error", path |-> errors[n].path]]
  /\ Len(errors)
       = Cardinality({k \in 1..Len(status) : status[k] \in {"openfail", "docfail"}})
  /\ \A k \in 1..Len(status) :
       status[k] = "result" => ShowsFor(YieldedPaths[k]) # {}

\* A run has ended in which the first book failed and the second was shown:
\* the result of the later book precedes the error line of the earlier one.
C7_Witness ==
  /\ pc = "done"
  /\ status = <<"docfail", "result">>
  /\ log = <<[ev |-> "show", path |-> YieldedPaths[2]],
             [ev |-> "error", path |-> YieldedPaths[1]]>>

\* ------------------------------------------------------------------- C9
\* Reverse of a sequence.
Reverse(sq) == [i \in 1..Len(sq) |-> sq[Len(sq) + 1 - i]]

\* Case folded, with every run of whitespace made one space.
RECURSIVE Normalize(_)
Normalize(sq) ==
  IF sq = <<>> THEN <<>>
  ELSE IF IsSpace(Head(sq)) THEN <<" ">> \o Normalize(LStrip(sq))
  ELSE <<Lower(Head(sq))>> \o Normalize(Tail(sq))

\* The trimmed phrase occurs in the text, as a run of characters, up to case
\* and the width of the spacing.
Occurs(ph, text) ==
  \E i \in 0..Len(text) : \E j \in i..Len(text) :
    Normalize(SubSeq(text, i + 1, j)) = Normalize(Strip(ph))

\* C9: Patterns(P).match(T) is true exactly when the pattern of every phrase
\* of P finds an occurrence in T on its own; the order of the phrases does
\* not matter; and a phrase that does not occur in T makes the match false.
C9_Conjunction ==
  mpc = "matched" =>
    /\ mResult <=>
         \A k \in 1..Len(mPhrases) : Search(CompilePhrase(mPhrases[k]), mText)
    /\ mResult <=> Match(Patterns(Reverse(mPhrases)), mText)
    /\ (\E k \in 1..Len(mPhrases) : ~Occurs(mPhrases[k], mText)) => ~mResult

\* Two different phrases were matched against a text in which the second
\* occurs before the first and in another case, and the match is true.
C9_Witness ==
  /\ mpc = "matched"
  /\ mResult
  /\ mPhrases = << <<"a">>, <<"b">> >>
  /\ mText = <<"b", " ", "A">>

====
